---- MODULE Spec2Model ----
(***************************************************************************)
(* A model of process_childes.py: the four rewrite passes over one CHAT    *)
(* utterance (process_unidentifiable, process_incomplete, process_omit,    *)
(* process_paralinguistic) and the fixed-order pipeline of                 *)
(* test_process_childes.py.  An utterance is a sequence of one-character   *)
(* strings.  Each regular expression is modelled by a matcher that gives,  *)
(* for a start position, the index of the last character the pattern       *)
(* consumes there (0 when it does not match), and re.sub by the leftmost,  *)
(* non-overlapping scan of Python's re module.                             *)
(***************************************************************************)
EXTENDS Integers, Sequences, FiniteSets, TLC

VARIABLES
  utterance,  \* the argument of the call
  result,     \* the working string of the call, then the value it returns
  pc,         \* "ready", "while" (at the loop condition of process_omit), "done"
  fn,         \* the function called
  first,      \* what the pipeline returned when it is applied a second time
  calls       \* the number of calls that have returned

vars == <<utterance, result, pc, fn, first, calls>>

-----------------------------------------------------------------------------
(* Character classes of Python's re on str patterns.                       *)

Letters ==
  {"a","b","c","d","e","f","g","h","i","j","k","l","m",
   "n","o","p","q","r","s","t","u","v","w","x","y","z"}

Digits == {"0","1","2","3","4","5","6","7","8","9"}

\* \w
WordChars == Letters \cup Digits \cup {"_"}

\* \s, and the characters str.split() and str.strip() treat as whitespace
SpaceChars == {" ", "\t", "\n"}

IsWord(c) == c \in WordChars

IsSpace(c) == c \in SpaceChars

\* "." without re.DOTALL matches anything but a line break
IsDot(c) == c # "\n"

\* the literal lit occurs in s at position i
LitAt(s, i, lit) ==
  /\ i >= 1
  /\ i + Len(lit) - 1 <= Len(s)
  /\ \A k \in 1..Len(lit) : s[i + k - 1] = lit[k]

\* index of the last character of the longest run of characters of the
\* class cls that starts at i; i - 1 when the run is empty (a greedy [cls]*)
RECURSIVE RunEnd(_, _, _)
RunEnd(cls, s, i) ==
  IF i <= Len(s) /\ s[i] \in cls THEN RunEnd(cls, s, i + 1) ELSE i - 1

\* the same for the characters outside cls (a greedy [^cls]*)
RECURSIVE RunEndNot(_, _, _)
RunEndNot(cls, s, i) ==
  IF i <= Len(s) /\ s[i] \notin cls THEN RunEndNot(cls, s, i + 1) ELSE i - 1

\* \b at the gap before position i
WordBoundary(s, i) ==
  LET before == i - 1 >= 1 /\ i - 1 <= Len(s) /\ IsWord(s[i - 1])
      after  == i >= 1 /\ i <= Len(s) /\ IsWord(s[i])
  IN  before # after

\* a group that took no part in the match
None == <<"None">>

\* raised by None + str
TypeError == <<"TypeError">>

-----------------------------------------------------------------------------
(* The pattern and the replacement of process_unidentifiable.              *)

UNKOWN_TOKEN == <<"<", "u", "n", "k", ">">>

UnidMarkers == {<<"x","x","x">>, <<"y","y","y">>, <<"w","w","w">>}

\* the pattern with its two \b left out
MatchUnidNoBoundary(s, i) ==
  IF \E m \in UnidMarkers : LitAt(s, i, m) THEN i + 2 ELSE 0

\* r'\b(xxx|yyy|www)\b'
MatchUnid(s, i) ==
  IF /\ WordBoundary(s, i)
     /\ \E m \in UnidMarkers : LitAt(s, i, m)
     /\ WordBoundary(s, i + 3)
  THEN i + 2 ELSE 0

ReplUnid(s, i, e) == UNKOWN_TOKEN

-----------------------------------------------------------------------------
(* The pattern and the replacement of process_incomplete.                  *)

\* \((\w+)\) at i: the greedy \w+ must take the whole run of word
\* characters, since a shorter one is followed by a word character, not ")"
MatchBareParen(s, i) ==
  IF i <= Len(s) /\ s[i] = "("
  THEN LET r == RunEnd(WordChars, s, i + 1)
       IN  IF r >= i + 1 /\ r + 1 <= Len(s) /\ s[r + 1] = ")" THEN r + 1 ELSE 0
  ELSE 0

\* (\w+)\((\w+)\) at i
MatchStemParen(s, i) ==
  LET r == RunEnd(WordChars, s, i)
  IN  IF r >= i THEN MatchBareParen(s, r + 1) ELSE 0

\* the earlier pattern r'(\w+)\((\w+)\)', which has no bare-paren alternative
MatchIncompleteStemOnly(s, i) == MatchStemParen(s, i)

\* r'\((\w+)\)|(\w+)\((\w+)\)': the first alternative is tried first
MatchIncomplete(s, i) ==
  IF MatchBareParen(s, i) # 0 THEN MatchBareParen(s, i) ELSE MatchStemParen(s, i)

\* lambda m: m.group(1) or m.group(2) + m.group(3)
ReplIncomplete(s, i, e) ==
  LET bare    == MatchBareParen(s, i) # 0
      stemEnd == RunEnd(WordChars, s, i)
      group1  == IF bare THEN SubSeq(s, i + 1, e - 1) ELSE None
      group2  == IF bare THEN None ELSE SubSeq(s, i, stemEnd)
      group3  == IF bare THEN None ELSE SubSeq(s, stemEnd + 2, e - 1)
  IN  IF group1 # None /\ group1 # << >> THEN group1
      ELSE IF group2 = None \/ group3 = None THEN TypeError
      ELSE group2 \o group3

-----------------------------------------------------------------------------
(* The pattern and the replacement of process_omit.                        *)

OmitPrefix == <<"&", "=", "0">>

\* the body with \w+ for \w*, which misses a bare &=0
MatchOmitBodyTagged(s, j) ==
  IF LitAt(s, j, OmitPrefix) /\ RunEnd(WordChars, s, j + 3) >= j + 3
  THEN LET r == RunEnd(WordChars, s, j + 3)
       IN  IF r + 1 <= Len(s) /\ IsSpace(s[r + 1]) THEN r + 1
           ELSE IF r = Len(s) THEN r
           ELSE 0
  ELSE 0

\* &=0\w*(?:\s|$) from position j on: the greedy \w* takes the whole run of
\* word characters (after a shorter one comes a word character, which is
\* neither \s nor the end); then one whitespace character is consumed, or
\* the end of the string is matched without consuming anything
MatchOmitBody(s, j) ==
  IF LitAt(s, j, OmitPrefix)
  THEN LET r == RunEnd(WordChars, s, j + 3)
       IN  IF r + 1 <= Len(s) /\ IsSpace(s[r + 1]) THEN r + 1
           ELSE IF r = Len(s) THEN r
           ELSE 0
  ELSE 0

\* the earlier pattern r'\s*&=0\w*\s*', which needs no delimiter
MatchOmitLoose(s, i) ==
  LET j == RunEnd(SpaceChars, s, i) + 1
  IN  IF LitAt(s, j, OmitPrefix)
      THEN RunEnd(SpaceChars, s, RunEnd(WordChars, s, j + 3) + 1)
      ELSE 0

\* r'(?:^|\s)&=0\w*(?:\s|$)': ^ only at the first position, tried before \s
MatchOmit(s, i) ==
  IF i = 1 /\ MatchOmitBody(s, i) # 0 THEN MatchOmitBody(s, i)
  ELSE IF i <= Len(s) /\ IsSpace(s[i]) THEN MatchOmitBody(s, i + 1)
  ELSE 0

ReplOmit(s, i, e) == <<" ">>

-----------------------------------------------------------------------------
(* The patterns and the replacements of process_paralinguistic.            *)

ActionPrefix == <<"&", "=">>

EventPrefix == <<"[", "=", "!">>

\* r'&=\w+'
MatchAction(s, i) ==
  IF LitAt(s, i, ActionPrefix)
  THEN LET r == RunEnd(WordChars, s, i + 2)
       IN  IF r >= i + 2 THEN r ELSE 0
  ELSE 0

ReplAction(s, i, e) == << >>

\* .*?c from position k on: the lazy .*? grows one character at a time and
\* stops at the first c; it cannot cross a line break
RECURSIVE LazyUntil(_, _, _)
LazyUntil(s, k, c) ==
  IF k > Len(s) THEN 0
  ELSE IF s[k] = c THEN k
  ELSE IF IsDot(s[k]) THEN LazyUntil(s, k + 1, c)
  ELSE 0

\* \[=!.*?\] at i
MatchBracket(s, i) ==
  IF LitAt(s, i, EventPrefix) THEN LazyUntil(s, i + 3, "]") ELSE 0

\* index of the ">" that closes <([^>]+)> opened at i, 0 if there is none:
\* the greedy [^>]+ runs up to the first ">" and must not be empty
AngleClose(s, i) ==
  IF i <= Len(s) /\ s[i] = "<"
  THEN LET g == RunEndNot({">"}, s, i + 1)
       IN  IF g >= i + 1 /\ g + 1 <= Len(s) THEN g + 1 ELSE 0
  ELSE 0

\* <([^>]+)>\s*\[=!.*?\] at i
MatchAngleBracket(s, i) ==
  LET c == AngleClose(s, i)
  IN  IF c # 0 THEN MatchBracket(s, RunEnd(SpaceChars, s, c + 1) + 1) ELSE 0

\* the pattern without its second alternative
MatchEventAngleOnly(s, i) == MatchAngleBracket(s, i)

\* a pattern that takes every square bracket for an event, with \[.*?\]
MatchEventAnyBracket(s, i) ==
  IF MatchAngleBracket(s, i) # 0 THEN MatchAngleBracket(s, i)
  ELSE IF i <= Len(s) /\ s[i] = "[" THEN LazyUntil(s, i + 1, "]")
  ELSE 0

\* r'<([^>]+)>\s*\[=!.*?\]|\[=!.*?\]'
MatchEvent(s, i) ==
  IF MatchAngleBracket(s, i) # 0 THEN MatchAngleBracket(s, i) ELSE MatchBracket(s, i)

\* lambda m: m.group(1) if m.group(1) else ''
ReplEvent(s, i, e) ==
  LET group1 == IF MatchAngleBracket(s, i) # 0
                THEN SubSeq(s, i + 1, AngleClose(s, i) - 1)
                ELSE None
  IN  IF group1 # None /\ group1 # << >> THEN group1 ELSE << >>

-----------------------------------------------------------------------------
(* re.search and re.sub.  A pattern is named by the rewriter it belongs to. *)

PatternUnid == "unidentifiable"

PatternIncomplete == "incomplete"

PatternOmit == "omit"

PatternAction == "action"

PatternEvent == "event"

\* the match of the pattern that starts at i: the index of its last
\* character, 0 if there is none
Match(pattern, s, i) ==
  CASE pattern = PatternUnid       -> MatchUnid(s, i)
    [] pattern = PatternIncomplete -> MatchIncomplete(s, i)
    [] pattern = PatternOmit       -> MatchOmit(s, i)
    [] pattern = PatternAction     -> MatchAction(s, i)
    [] pattern = PatternEvent      -> MatchEvent(s, i)

\* the replacement re.sub is given for the pattern, for the match s[i..e]
Repl(pattern, s, i, e) ==
  CASE pattern = PatternUnid       -> ReplUnid(s, i, e)
    [] pattern = PatternIncomplete -> ReplIncomplete(s, i, e)
    [] pattern = PatternOmit       -> ReplOmit(s, i, e)
    [] pattern = PatternAction     -> ReplAction(s, i, e)
    [] pattern = PatternEvent      -> ReplEvent(s, i, e)

\* re.sub(pattern, repl, s): scan left to right; where the pattern matches,
\* emit the replacement and resume after the match; elsewhere copy one
\* character.  Every pattern of the module consumes at least one character.
RECURSIVE ReSubFrom(_, _, _)
ReSubFrom(pattern, s, i) ==
  IF i > Len(s) THEN << >>
  ELSE LET e == Match(pattern, s, i)
       IN  IF e = 0
           THEN <<s[i]>> \o ReSubFrom(pattern, s, i + 1)
           ELSE Repl(pattern, s, i, e) \o ReSubFrom(pattern, s, e + 1)

ReSub(pattern, s) == ReSubFrom(pattern, s, 1)

\* re.search(pattern, s)
ReSearch(pattern, s) == \E i \in 1..Len(s) : Match(pattern, s, i) # 0

-----------------------------------------------------------------------------
(* The four rewriters.                                                     *)

\* re.sub(pattern, _UNKOWN_TOKEN, utterance)
process_unidentifiable(u) == ReSub(PatternUnid, u)

\* re.sub(pattern, lambda m: ..., utterance); an exception in the
\* replacement function ends the call
process_incomplete(u) ==
  LET r == ReSub(PatternIncomplete, u)
  IN  IF \E k \in 1..Len(r) : r[k] = "TypeError" THEN TypeError ELSE r

\* str.strip()
Strip(s) ==
  LET lead  == RunEnd(SpaceChars, s, 1)
      keep  == {k \in 1..Len(s) : ~IsSpace(s[k])}
      last  == IF keep = {} THEN 0 ELSE CHOOSE k \in keep : \A m \in keep : m <= k
  IN  IF keep = {} THEN << >> ELSE SubSeq(s, lead + 1, last)

\* the condition of the while loop, re.search(pattern, result)
OmitSearch(r) == ReSearch(PatternOmit, r)

\* the body of the while loop, re.sub(pattern, ' ', result).strip()
OmitStep(r) == Strip(ReSub(PatternOmit, r))

\* result = utterance; while ...: ...; return result
RECURSIVE OmitLoop(_)
OmitLoop(r) == IF OmitSearch(r) THEN OmitLoop(OmitStep(r)) ELSE r

process_omit(u) == OmitLoop(u)

\* str.split(): the maximal runs of non-whitespace characters, in order
RECURSIVE SplitFrom(_, _)
SplitFrom(s, i) ==
  IF i > Len(s) THEN << >>
  ELSE IF IsSpace(s[i]) THEN SplitFrom(s, i + 1)
  ELSE LET e == RunEndNot(SpaceChars, s, i)
       IN  <<SubSeq(s, i, e)>> \o SplitFrom(s, e + 1)

Split(s) == SplitFrom(s, 1)

\* sep.join(parts)
RECURSIVE Join(_, _)
Join(sep, parts) ==
  IF parts = << >> THEN << >>
  ELSE IF Len(parts) = 1 THEN parts[1]
  ELSE parts[1] \o sep \o Join(sep, Tail(parts))

\* re.sub(r'&=\w+', '', utterance, count=1): only the first match goes
RemoveActionsOnce(u) ==
  LET hits == {i \in 1..Len(u) : MatchAction(u, i) # 0}
      i == CHOOSE k \in hits : \A m \in hits : k <= m
  IN  IF hits = {} THEN u
      ELSE SubSeq(u, 1, i - 1) \o SubSeq(u, MatchAction(u, i) + 1, Len(u))

\* utterance = re.sub(r'&=\w+', '', utterance)
RemoveActions(u) == ReSub(PatternAction, u)

\* utterance = re.sub(pattern, lambda m: ..., utterance)
RemoveEvents(u) == ReSub(PatternEvent, u)

\* utterance.replace('  ', ' '): each pair of spaces becomes one, once
RECURSIVE ReplaceSpacePairs(_, _)
ReplaceSpacePairs(s, i) ==
  IF i > Len(s) THEN << >>
  ELSE IF LitAt(s, i, <<" ", " ">>) THEN <<" ">> \o ReplaceSpacePairs(s, i + 2)
  ELSE <<s[i]>> \o ReplaceSpacePairs(s, i + 1)

NormalizeSpacePairs(u) == ReplaceSpacePairs(u, 1)

\* re.sub(r'\s+', ' ', utterance): runs collapsed, the ends not trimmed
NormalizeSpaceNoTrim(u) ==
  LET body  == Join(<<" ">>, Split(u))
      lead  == IF u # << >> /\ IsSpace(u[1]) THEN <<" ">> ELSE << >>
      trail == IF body # << >> /\ IsSpace(u[Len(u)]) THEN <<" ">> ELSE << >>
  IN  lead \o body \o trail

\* return ' '.join(utterance.split())
NormalizeSpace(u) == Join(<<" ">>, Split(u))

process_paralinguistic(u) == NormalizeSpace(RemoveEvents(RemoveActions(u)))

-----------------------------------------------------------------------------
(* The pipeline of test_complex.                                           *)

\* process_pipeline = lambda x: pc.process_paralinguistic(pc.process_omit(
\*   pc.process_incomplete(pc.process_unidentifiable(x))))
process_pipeline(x) ==
  process_paralinguistic(process_omit(process_incomplete(process_unidentifiable(x))))

-----------------------------------------------------------------------------
(* The utterances the rewriters are called on: every concatenation of at   *)
(* most n fragments of a set of short pieces of text and markup, and the   *)
(* utterances of test_complex.                                             *)

\* the concatenation of a sequence of sequences
RECURSIVE Flatten(_)
Flatten(parts) ==
  IF parts = << >> THEN << >> ELSE Head(parts) \o Flatten(Tail(parts))

\* u is a concatenation of at most n fragments
IsUtterance(u, frags, n) ==
  \E k \in 0..n : \E parts \in [1..k -> frags] : u = Flatten(parts)

MaxUnidFrags == 5

UnidFrags ==
  {<<"x">>, <<"x","x","x">>, <<"y","y","y">>, <<"w","w","w">>,
   <<"a">>, <<" ">>, <<"<">>}

MaxIncompleteFrags == 6

IncompleteFrags == {<<"a">>, <<"(">>, <<")">>, <<" ">>, <<"!">>}

MaxOmitFrags == 5

OmitFrags ==
  {<<"&","=","0">>, <<"&">>, <<"=">>, <<"0">>, <<"a">>, <<" ">>, <<"\n">>}

\* the bound on the utterances whose loop runs are checked for termination
MaxOmitLoopFrags == 4

MaxParaFrags == 5

ParaFrags ==
  {<<"&">>, <<"=","a">>, <<"[">>, <<"[","=","!">>, <<"=","!">>, <<"]">>,
   <<"<">>, <<">">>, <<" ">>, <<"\n">>}

MaxPipeFrags == 4

PipeFrags ==
  {<<"x">>, <<"x","x","x">>, <<"(">>, <<")">>, <<"&","=">>, <<"0">>,
   <<" ">>, <<"[","=","!","]">>, <<"<">>, <<">">>}

MaxAllFrags == 4

AllFrags ==
  {<<"x">>, <<"x","x","x">>, <<"(">>, <<")">>, <<"&","=">>, <<"0">>,
   <<" ">>, <<"\n">>, <<"[","=","!">>, <<"]">>}

\* 'xxx sit(ting) &=jumps www'
TestComplex1 ==
  <<"x","x","x"," ","s","i","t","(","t","i","n","g",")"," ","&","=","j","u",
    "m","p","s"," ","w","w","w">>

\* '<unk> sitting <unk>'
Expected1 ==
  <<"<","u","n","k",">"," ","s","i","t","t","i","n","g"," ","<","u","n","k",
    ">">>

\* 'xxx walk(ing) &=0the <run(ning)> [=! laughs]'
TestComplex2 ==
  <<"x","x","x"," ","w","a","l","k","(","i","n","g",")"," ","&","=","0","t",
    "h","e"," ","<","r","u","n","(","n","i","n","g",")",">"," ","[","=","!",
    " ","l","a","u","g","h","s","]">>

\* '<unk> walking running'
Expected2 ==
  <<"<","u","n","k",">"," ","w","a","l","k","i","n","g"," ","r","u","n","n",
    "i","n","g">>

\* '&=0the xxx talk(ing) [=! cries] www'
TestComplex3 ==
  <<"&","=","0","t","h","e"," ","x","x","x"," ","t","a","l","k","(","i","n",
    "g",")"," ","[","=","!"," ","c","r","i","e","s","]"," ","w","w","w">>

\* '<unk> talking <unk>'
Expected3 ==
  <<"<","u","n","k",">"," ","t","a","l","k","i","n","g"," ","<","u","n","k",
    ">">>

\* '<xxx> [=! crying] &=0to walk(ing)'
TestComplex4 ==
  <<"<","x","x","x",">"," ","[","=","!"," ","c","r","y","i","n","g","]"," ",
    "&","=","0","t","o"," ","w","a","l","k","(","i","n","g",")">>

\* '<unk> walking'
Expected4 ==
  <<"<","u","n","k",">"," ","w","a","l","k","i","n","g">>

TestComplexInputs == {TestComplex1, TestComplex2, TestComplex3, TestComplex4}

-----------------------------------------------------------------------------
(* One call of a rewriter on the utterance.  Ready is the state before it. *)

Ready ==
  /\ result = << >>
  /\ first = << >>
  /\ pc = "ready"
  /\ fn = "none"
  /\ calls = 0

CallUnidentifiable ==
  /\ pc = "ready"
  /\ calls = 0
  /\ fn' = "process_unidentifiable"
  /\ result' = process_unidentifiable(utterance)
  /\ pc' = "done"
  /\ calls' = 1
  /\ UNCHANGED <<utterance, first>>

CallIncomplete ==
  /\ pc = "ready"
  /\ calls = 0
  /\ fn' = "process_incomplete"
  /\ result' = process_incomplete(utterance)
  /\ pc' = "done"
  /\ calls' = 1
  /\ UNCHANGED <<utterance, first>>

CallParalinguistic ==
  /\ pc = "ready"
  /\ calls = 0
  /\ fn' = "process_paralinguistic"
  /\ result' = process_paralinguistic(utterance)
  /\ pc' = "done"
  /\ calls' = 1
  /\ UNCHANGED <<utterance, first>>

\* process_omit, one step per evaluation of the loop condition
OmitEnter ==
  /\ pc = "ready"
  /\ calls = 0
  /\ fn' = "process_omit"
  /\ result' = utterance
  /\ pc' = "while"
  /\ UNCHANGED <<utterance, first, calls>>

OmitIterate ==
  /\ pc = "while"
  /\ OmitSearch(result)
  /\ result' = OmitStep(result)
  /\ UNCHANGED <<utterance, first, pc, fn, calls>>

OmitReturn ==
  /\ pc = "while"
  /\ ~OmitSearch(result)
  /\ pc' = "done"
  /\ calls' = 1
  /\ UNCHANGED <<utterance, result, first, fn>>

\* process_pipeline(x)
CallPipeline ==
  /\ pc = "ready"
  /\ calls = 0
  /\ fn' = "process_pipeline"
  /\ result' = process_pipeline(utterance)
  /\ pc' = "done"
  /\ calls' = 1
  /\ UNCHANGED <<utterance, first>>

\* process_pipeline applied to the value it returned
CallPipelineAgain ==
  /\ pc = "done"
  /\ fn = "process_pipeline"
  /\ calls = 1
  /\ first' = result
  /\ result' = process_pipeline(result)
  /\ calls' = 2
  /\ UNCHANGED <<utterance, pc, fn>>

-----------------------------------------------------------------------------
(* The specifications: one per rewriter, one for the pipeline, and one in  *)
(* which any of the four rewriters is called.                              *)

InitUnid == IsUtterance(utterance, UnidFrags, MaxUnidFrags) /\ Ready

NextUnid == CallUnidentifiable

SpecUnid == InitUnid /\ [][NextUnid]_vars

InitIncomplete == IsUtterance(utterance, IncompleteFrags, MaxIncompleteFrags) /\ Ready

NextIncomplete == CallIncomplete

SpecIncomplete == InitIncomplete /\ [][NextIncomplete]_vars

InitOmit == IsUtterance(utterance, OmitFrags, MaxOmitFrags) /\ Ready

NextOmit == OmitEnter \/ OmitIterate \/ OmitReturn

SpecOmit == InitOmit /\ [][NextOmit]_vars

InitOmitLoop == IsUtterance(utterance, OmitFrags, MaxOmitLoopFrags) /\ Ready

\* process_omit is sequential code: it takes its next step whenever it has one
FairSpecOmit == InitOmitLoop /\ [][NextOmit]_vars /\ WF_vars(NextOmit)

InitPara == IsUtterance(utterance, ParaFrags, MaxParaFrags) /\ Ready

NextPara == CallParalinguistic

SpecPara == InitPara /\ [][NextPara]_vars

InitPipeline ==
  /\ \/ IsUtterance(utterance, PipeFrags, MaxPipeFrags)
     \/ utterance \in TestComplexInputs
  /\ Ready

NextPipeline == CallPipeline \/ CallPipelineAgain

SpecPipeline == InitPipeline /\ [][NextPipeline]_vars

Init == IsUtterance(utterance, AllFrags, MaxAllFrags) /\ Ready

Next ==
  \/ CallUnidentifiable
  \/ CallIncomplete
  \/ OmitEnter
  \/ OmitIterate
  \/ OmitReturn
  \/ CallParalinguistic

Spec == Init /\ [][Next]_vars

-----------------------------------------------------------------------------
(* What the claims speak of, stated on the text itself.                    *)

Done(name) == pc = "done" /\ fn = name

\* p occurs in s as a contiguous substring
Occurs(p, s) == \E k \in 1..(Len(s) - Len(p) + 1) : LitAt(s, k, p)

\* the whitespace-delimited tokens of s, in order
TokenStarts(s) ==
  {i \in 1..Len(s) : ~IsSpace(s[i]) /\ (i = 1 \/ IsSpace(s[i - 1]))}

TokenAt(s, i) ==
  LET e == CHOOSE j \in i..Len(s) :
             /\ \A k \in i..j : ~IsSpace(s[k])
             /\ (j = Len(s) \/ IsSpace(s[j + 1]))
  IN  SubSeq(s, i, e)

TokenSeq(s) ==
  LET starts == TokenStarts(s)
      Kth(k) == CHOOSE i \in starts : Cardinality({j \in starts : j < i}) = k - 1
  IN  [k \in 1..Cardinality(starts) |-> TokenAt(s, Kth(k))]

\* `&=0` followed by zero or more word characters
IsOmitToken(tok) ==
  /\ LitAt(tok, 1, OmitPrefix)
  /\ \A k \in 4..Len(tok) : IsWord(tok[k])

KeptToken(tok) == ~IsOmitToken(tok)

\* the number of standalone `&=0...` tokens of s
StandaloneCount(s) ==
  Cardinality({k \in 1..Len(TokenSeq(s)) : IsOmitToken(TokenSeq(s)[k])})

\* xxx, yyy or www at i with a non-word character or a string end on both sides
StandaloneMarker(u, i) ==
  /\ \E m \in UnidMarkers : LitAt(u, i, m)
  /\ (i = 1 \/ ~IsWord(u[i - 1]))
  /\ (i + 3 > Len(u) \/ ~IsWord(u[i + 3]))

\* xxx, yyy or www at i inside a larger run of word characters
EmbeddedMarker(u, i) ==
  /\ \E m \in UnidMarkers : LitAt(u, i, m)
  /\ ~StandaloneMarker(u, i)

\* u[i] = "(" and u[j] = ")" enclose one or more word characters
ParenGroup(u, i, j) ==
  /\ u[i] = "("
  /\ u[j] = ")"
  /\ j > i + 1
  /\ \A k \in (i + 1)..(j - 1) : IsWord(u[k])

ParenPositions(u) ==
  {k \in 1..Len(u) : \E i, j \in 1..Len(u) : ParenGroup(u, i, j) /\ k \in {i, j}}

\* `&=` immediately followed by a word character at i
ActionMarkerAt(s, i) ==
  /\ LitAt(s, i, ActionPrefix)
  /\ i + 2 <= Len(s)
  /\ IsWord(s[i + 2])

HasActionMarker(s) == \E i \in 1..Len(s) : ActionMarkerAt(s, i)

\* a substring that starts with `[=!` and ends with a later `]`
HasEventBracket(s) ==
  \E i, j \in 1..Len(s) : LitAt(s, i, EventPrefix) /\ j >= i + 3 /\ s[j] = "]"

\* the same on one line, as the event pattern needs it
HasEventBracketOnLine(s) ==
  \E i, j \in 1..Len(s) :
    /\ LitAt(s, i, EventPrefix)
    /\ j >= i + 3
    /\ s[j] = "]"
    /\ \A k \in (i + 3)..(j - 1) : s[k] # "\n"

\* the square bracket of u from its "[" at i to the first following "]" at j
Bracket(u, i, j) ==
  /\ u[i] = "["
  /\ j > i
  /\ u[j] = "]"
  /\ \A k \in (i + 1)..(j - 1) : u[k] # "]"

\* every whitespace character of s is a single space between two tokens
SingleSpaced(s) ==
  \A k \in 1..Len(s) :
    IsSpace(s[k]) => s[k] = " " /\ 1 < k /\ k < Len(s) /\ ~IsSpace(s[k + 1])

\* the markup each rewriter recognizes
HasUnidMarkup(u) == \E i \in 1..Len(u) : StandaloneMarker(u, i)

HasIncompleteMarkup(u) == ParenPositions(u) # {}

HasOmitMarkup(u) == StandaloneCount(u) > 0

HasParaMarkup(u) == HasActionMarker(u) \/ HasEventBracketOnLine(u)

Recognizes(name, u) ==
  CASE name = "process_unidentifiable" -> HasUnidMarkup(u)
    [] name = "process_incomplete"     -> HasIncompleteMarkup(u)
    [] name = "process_omit"           -> HasOmitMarkup(u)
    [] name = "process_paralinguistic" -> HasParaMarkup(u)
    [] OTHER                           -> TRUE

-----------------------------------------------------------------------------
(* Claims about process_unidentifiable (under SpecUnid).                   *)

\* C9: process_unidentifiable replaces by <unk> exactly the occurrences of
\* xxx, yyy or www that have a non-word character or a string end on both
\* sides, each one independently, and changes nothing else: the result is the
\* utterance with each such occurrence replaced and every other character,
\* those of embedded occurrences included, copied in place.
C9_ReplacesExactlyStandaloneMarkers ==
  Done("process_unidentifiable") =>
    result = Flatten([i \in 1..Len(utterance) |->
               IF StandaloneMarker(utterance, i) THEN UNKOWN_TOKEN
               ELSE IF \/ i > 1 /\ StandaloneMarker(utterance, i - 1)
                       \/ i > 2 /\ StandaloneMarker(utterance, i - 2)
                    THEN << >>
                    ELSE <<utterance[i]>>])

\* a call on an utterance with a standalone marker and an embedded one
C9_Witness ==
  /\ Done("process_unidentifiable")
  /\ \E i \in 1..Len(utterance) : StandaloneMarker(utterance, i)
  /\ \E i \in 1..Len(utterance) : EmbeddedMarker(utterance, i)
  /\ Occurs(UNKOWN_TOKEN, result)
  /\ \E m \in UnidMarkers : Occurs(m, result)

-----------------------------------------------------------------------------
(* Claims about process_incomplete (under SpecIncomplete).                 *)

\* C8: process_incomplete removes exactly the two parentheses of each
\* parenthesized run of one or more word characters, so that stem(suffix)
\* becomes stemsuffix and (fragment) becomes fragment; every other character,
\* parentheses that enclose spaces, punctuation or nothing included, is kept
\* unchanged and in order.
C8_RemovesExactlyGroupParentheses ==
  Done("process_incomplete") =>
    result = Flatten([k \in 1..Len(utterance) |->
               IF k \in ParenPositions(utterance) THEN << >>
               ELSE <<utterance[k]>>])

\* a call on an utterance with a stem(suffix) form that is resolved and a
\* parenthesis that is no markup and stays
C8_Witness ==
  /\ Done("process_incomplete")
  /\ \E i, j \in 1..Len(utterance) :
       ParenGroup(utterance, i, j) /\ i > 1 /\ IsWord(utterance[i - 1])
  /\ \E k \in 1..Len(result) : result[k] \in {"(", ")"}

-----------------------------------------------------------------------------
(* Claims about process_omit (under SpecOmit and FairSpecOmit).            *)

\* C3: the whitespace-delimited tokens of process_omit(u) are, in the same
\* order, the whitespace-delimited tokens of u minus the tokens that consist
\* of `&=0` followed by zero or more word characters; a fused `&=0...` is
\* kept and consecutive omission tokens are all removed.
C3_KeepsExactlyOtherTokens ==
  Done("process_omit") =>
    TokenSeq(result) = SelectSeq(TokenSeq(utterance), KeptToken)

\* a call that has returned on an utterance with two consecutive omission
\* tokens, with a token left in the result
C3_Witness ==
  /\ Done("process_omit")
  /\ \E k \in 1..(Len(TokenSeq(utterance)) - 1) :
       IsOmitToken(TokenSeq(utterance)[k]) /\ IsOmitToken(TokenSeq(utterance)[k + 1])
  /\ result # << >>

\* C10: the rescan loop of process_omit terminates: whenever the loop
\* condition is evaluated, the loop exits if no standalone `&=0...` token
\* remains in the working string and otherwise runs one iteration that
\* strictly reduces the number of standalone tokens; and the call returns.
C10_LoopTerminates ==
  /\ [][pc = "while" =>
          IF StandaloneCount(result) = 0
          THEN pc' = "done" /\ result' = result
          ELSE pc' = "while" /\ StandaloneCount(result') < StandaloneCount(result)]_vars
  /\ <>(pc = "done")

\* the loop is about to run a second iteration
C10_Witness ==
  /\ pc = "while"
  /\ StandaloneCount(result) > 0
  /\ StandaloneCount(result) < StandaloneCount(utterance)

-----------------------------------------------------------------------------
(* Claims about process_paralinguistic (under SpecPara).                   *)

\* C6 as stated: for every utterance, the result of process_paralinguistic
\* contains no `&=` immediately followed by a word character.
C6_NoActionMarkerLeft ==
  Done("process_paralinguistic") => ~HasActionMarker(result)

\* every "&" of u begins a bare event marker
EveryAmpersandBeginsMarker(u) ==
  \A i \in 1..Len(u) : u[i] = "&" => ActionMarkerAt(u, i)

\* C6, amended: when every `&` of the utterance begins a bare event marker
\* (is immediately followed by `=` and a word character), the result of
\* process_paralinguistic contains no `&=` followed by a word character.
C6_NoActionMarkerLeftOfMarkersOnly ==
  Done("process_paralinguistic") /\ EveryAmpersandBeginsMarker(utterance) =>
    ~HasActionMarker(result)

\* a call that deleted two markers and left other text
C6_Witness ==
  /\ Done("process_paralinguistic")
  /\ EveryAmpersandBeginsMarker(utterance)
  /\ \E i, j \in 1..Len(utterance) :
       i < j /\ ActionMarkerAt(utterance, i) /\ ActionMarkerAt(utterance, j)
  /\ result # << >>

\* C5 as stated: for every utterance, the result of process_paralinguistic
\* contains no substring that starts with `[=!` and ends with a later `]`.
C5_NoEventBracketLeft ==
  Done("process_paralinguistic") => ~HasEventBracket(result)

\* the characters of u after position i up to the first c after i
UpToNext(u, i, c) ==
  {k \in (i + 1)..Len(u) : \A m \in (i + 1)..k : u[m] # c}

\* no square bracket of u holds a "[", a "<" or a line break, and no
\* angle-bracket span of u holds a "["
Unnested(u) ==
  \A i \in 1..Len(u) :
    /\ u[i] = "[" => \A k \in UpToNext(u, i, "]") : u[k] \notin {"[", "<", "\n"}
    /\ u[i] = "<" => \A k \in UpToNext(u, i, ">") : u[k] # "["

\* C5, amended: when no square bracket of the utterance holds a `[`, a `<`
\* or a line break and no angle-bracket span holds a `[`, the result of
\* process_paralinguistic contains no substring that starts with `[=!` and
\* ends with a later `]`.
C5_NoEventBracketLeftOfUnnested ==
  Done("process_paralinguistic") /\ Unnested(utterance) =>
    ~HasEventBracket(result)

\* a call that deleted an event bracket and unwrapped the angle-bracket
\* span before it
C5_Witness ==
  /\ Done("process_paralinguistic")
  /\ Unnested(utterance)
  /\ HasEventBracket(utterance)
  /\ \E i \in 1..Len(utterance) : MatchAngleBracket(utterance, i) # 0
  /\ result # << >>
  /\ \A k \in 1..Len(result) : result[k] \notin {"<", ">"}

\* the bracket u[i..j] is found in the result character for character
KeptBracket(u, i, j) == Occurs(SubSeq(u, i, j), result)

\* C4 as stated: every square bracket of the utterance that does not start
\* with `=!` appears in the result of process_paralinguistic character for
\* character, whatever its content.
C4_NonEventBracketUntouched ==
  Done("process_paralinguistic") =>
    \A i, j \in 1..Len(utterance) :
      Bracket(utterance, i, j) /\ ~LitAt(utterance, i, EventPrefix) =>
        KeptBracket(utterance, i, j)

\* the bracket u[i..j] holds no "[", no "<", no bare event marker and no
\* whitespace but single spaces, and every "[" before it is closed before it
PlainBracket(u, i, j) ==
  /\ \A k \in (i + 1)..(j - 1) : u[k] \notin {"[", "<"}
  /\ \A k \in (i + 1)..(j - 1) : ~ActionMarkerAt(u, k)
  /\ \A k \in (i + 1)..(j - 1) : IsSpace(u[k]) => u[k] = " " /\ ~IsSpace(u[k + 1])
  /\ \A k \in 1..(i - 1) : u[k] = "[" => \E m \in (k + 1)..(i - 1) : u[m] = "]"

\* C4, amended: a square bracket that does not start with `=!` appears in
\* the result character for character provided that, from its `[` to the
\* first following `]`, it holds no `[`, no `<`, no bare event marker and no
\* whitespace other than single spaces, and that every `[` before it is
\* closed by a `]` before it.
C4_PlainNonEventBracketUntouched ==
  Done("process_paralinguistic") =>
    \A i, j \in 1..Len(utterance) :
      /\ Bracket(utterance, i, j)
      /\ ~LitAt(utterance, i, EventPrefix)
      /\ PlainBracket(utterance, i, j)
      => KeptBracket(utterance, i, j)

\* a call that deleted an event bracket and kept a bracket that is none
C4_Witness ==
  /\ Done("process_paralinguistic")
  /\ HasEventBracket(utterance)
  /\ ~HasEventBracket(result)
  /\ \E i, j \in 1..Len(utterance) :
       /\ Bracket(utterance, i, j)
       /\ ~LitAt(utterance, i, EventPrefix)
       /\ PlainBracket(utterance, i, j)
       /\ j > i + 1
       /\ KeptBracket(utterance, i, j)

-----------------------------------------------------------------------------
(* Claims about all four rewriters (under Spec).                           *)

Rewriters ==
  {"process_unidentifiable", "process_incomplete", "process_omit",
   "process_paralinguistic"}

\* the call has returned, on an utterance with no markup the called rewriter
\* recognizes
ReturnedWithoutMarkup ==
  pc = "done" /\ fn \in Rewriters /\ ~Recognizes(fn, utterance)

\* C7 as stated: each of the four rewriters returns an input that holds no
\* markup it recognizes unchanged.
C7_NoMarkupIsNoOp == ReturnedWithoutMarkup => result = utterance

\* C7, amended: process_unidentifiable, process_incomplete and process_omit
\* return an input that holds no markup they recognize unchanged;
\* process_paralinguistic returns such an input with every run of whitespace
\* collapsed to one space and the whitespace at both ends removed, its
\* tokens unchanged and in order; and no rewriter raises an error.
C7_NoMarkupKeepsText ==
  /\ ReturnedWithoutMarkup =>
       IF fn = "process_paralinguistic"
       THEN TokenSeq(result) = TokenSeq(utterance) /\ SingleSpaced(result)
       ELSE result = utterance
  /\ pc = "done" => result # TypeError

\* process_paralinguistic has returned, on an utterance with no markup it
\* recognizes, a text with the same tokens and other whitespace
C7_Witness ==
  /\ ReturnedWithoutMarkup
  /\ fn = "process_paralinguistic"
  /\ Len(TokenSeq(utterance)) >= 2
  /\ result # utterance

-----------------------------------------------------------------------------
(* Claims about the pipeline (under SpecPipeline).                         *)

\* u is <m> followed by optional spaces and an event bracket, m one of
\* xxx, yyy, www
AngleMarkerEvent(u) ==
  \E m \in UnidMarkers : \E n \in 0..1 :
    u = <<"<">> \o m \o <<">">> \o [k \in 1..n |-> " "] \o <<"[", "=", "!", "]">>

\* C2: an angle-bracket span that holds an unidentifiable marker and is
\* immediately followed by a `[=! ...]` bracket comes out of the pipeline as
\* the Unknown Token, the angle brackets stripped and the bracket deleted;
\* '<xxx> [=! crying] &=0to walk(ing)' comes out as '<unk> walking'.
C2_AngleMarkerSpanBecomesUnknown ==
  Done("process_pipeline") /\ calls = 1 =>
    /\ AngleMarkerEvent(utterance) => result = UNKOWN_TOKEN
    /\ utterance = TestComplex4 => result = Expected4

\* the text holds no markup any of the four rewriters recognizes
NoMarkupLeft(v) ==
  /\ ~HasUnidMarkup(v)
  /\ ~HasIncompleteMarkup(v)
  /\ ~HasOmitMarkup(v)
  /\ ~HasParaMarkup(v)

\* the pipeline has been applied to the utterance and then to what it returned
AppliedTwice == Done("process_pipeline") /\ calls = 2

\* C1 as stated: for every utterance, the pipeline applied to its own output
\* returns that output unchanged.
C1_Idempotent == AppliedTwice => result = first

\* C1, amended: the pipeline applied to its own output returns that output
\* unchanged whenever the output holds no markup that a rewriter recognizes
\* (no standalone xxx, yyy or www, no parenthesized run of word characters,
\* no standalone `&=0...` token, no `&=` before a word character and no
\* `[=! ...]` bracket).
C1_IdempotentOnMarkupFreeOutput ==
  AppliedTwice /\ NoMarkupLeft(first) => result = first

\* the second utterance of test_complex, on which all four passes act: the
\* output is the expected one, holds no markup, and comes back unchanged
C1_Witness ==
  /\ AppliedTwice
  /\ utterance = TestComplex2
  /\ first = Expected2
  /\ NoMarkupLeft(first)
  /\ result = first

====
